---- MODULE Spec2Model ----
(***************************************************************************)
(* The voting pallet (pallets/voting/src/lib.rs) as a state machine.       *)
(*                                                                         *)
(* Storage items are the variables; each dispatchable is an operator that  *)
(* maps the storage before the call to a dispatch result and the storage   *)
(* after it, statement by statement in the order of the source; each       *)
(* action dispatches one call with nondeterministic origin and arguments   *)
(* and records the call and its result in `last` and the storage the call   *)
(* started from in `prev`.  Events are deposited into frame_system, not    *)
(* into the pallet's storage, and are not modelled.                        *)
(***************************************************************************)
EXTENDS Integers, Sequences, FiniteSets, TLC

VARIABLES
    Election,      \* StorageValue<ElectionInfo, OptionQuery>: <<>> or <<info>>
    Candidates,    \* StorageValue<BoundedVec<Candidate, MaxCandidates>, ValueQuery>
    HasVoted,      \* StorageMap<AccountId, u32, OptionQuery>: function on the stored keys
    VoteCount,     \* StorageMap<u32, u32, ValueQuery>: function on the stored keys
    TotalVotes,    \* StorageValue<u32, ValueQuery>
    block_number,  \* frame_system::Pallet::<T>::block_number()
    last,          \* the call the latest step dispatched, with its DispatchResult
    prev,          \* the storage before the latest step
    \* the blind submission pipeline (spec sections 3, 4.3, 4.4)
    PendingVotes,        \* mapping pending_id -> PendingVote: function on the stored keys
    PendingVoteCounter,  \* the next pending_id
    EncryptedVotes,      \* mapping vote_id -> EncryptedVote: function on the stored keys
    VoteCounter,         \* the next vote_id
    blind_last,          \* the pipeline call the latest step dispatched, with its result
    blind_prev,          \* the pipeline's storage before the latest step
    issued               \* the ids issued so far, in call order, and the pending ids consumed

vars == <<Election, Candidates, HasVoted, VoteCount, TotalVotes, block_number, last, prev>>

blind_vars == <<PendingVotes, PendingVoteCounter, EncryptedVotes, VoteCounter,
                blind_last, blind_prev, issued>>

all_vars == <<vars, blind_vars>>

\* ---------------------------------------------------------------- bounds

\* T::MaxCandidates, a runtime configuration value
MaxCandidates == 2
\* T::MaxNameLength, a runtime configuration value
MaxNameLength == 1
\* the highest block number the model lets the chain reach
MaxBlock == 2

\* the bounds of PendingVote.encrypted_vote and PendingVote.blind_signature
MaxEncryptedVoteLength == 1
MaxBlindSignatureLength == 1
\* the number of submit_vote calls the model lets succeed
MaxSubmissions == 3

\* u32::MAX, the value saturating_add clamps at, scaled down to the model's size
\* (the counters are u32; no run of this size comes near 2^32 - 1)
U32Max == 2

\* ---------------------------------------------------------------- inputs

\* the origins a call is dispatched with: RawOrigin::Root and RawOrigin::Signed(account)
Root == "Root"
Accounts == {"alice", "bob", "carol"}
\* cast_vote is tried with every origin
Origins == {Root} \cup Accounts
\* the root-only calls are tried with Root and with one signed origin: ensure_root
\* rejects every signed origin alike
RootCallOrigins == {Root, CHOOSE a \in Accounts : TRUE}

\* candidate ids passed to add_candidate and cast_vote
CandidateIds == {1, 2}

\* a Vec<u8> of n bytes
Bytes(n) == [i \in 1..n |-> 65]
\* the byte strings passed as title, name and description: the longest one a
\* BoundedVec<u8, MaxNameLength> holds and the shortest one it does not hold
ByteStrings == {Bytes(MaxNameLength), Bytes(MaxNameLength + 1)}

\* the block numbers passed to create_election
Blocks == 1..MaxBlock

\* the arguments a call is dispatched with: every value of `all` under the origin
\* the call asks for, one value under an origin it rejects before reading them
ArgsFor(accepted, all) == IF accepted THEN all ELSE {CHOOSE x \in all : TRUE}

\* ---------------------------------------------------------------- helpers

\* Option / Result values: <<>> is None (or Err), <<v>> is Some(v) (or Ok(v))
None == <<>>
Some(v) == <<v>>

\* the storage the dispatchables read and write
Storage == [Election |-> Election, Candidates |-> Candidates, HasVoted |-> HasVoted,
            VoteCount |-> VoteCount, TotalVotes |-> TotalVotes]

\* a dispatchable returning Err(e) with storage s, and returning Ok(()) with storage s
Fail(s, e) == [result |-> e, state |-> s]
Done(s) == [result |-> "Ok", state |-> s]

\* Vec<u8>::try_into::<BoundedVec<u8, T::MaxNameLength>>()
try_into(v) == IF Len(v) <= MaxNameLength THEN Some(v) ELSE None

\* try_push with the capacity test off by one
try_push_one_more(vec, item) ==
    IF Len(vec) <= MaxCandidates THEN Some(Append(vec, item)) ELSE None

\* BoundedVec::try_push
try_push(vec, item) == IF Len(vec) < MaxCandidates THEN Some(Append(vec, item)) ELSE None

\* u32::wrapping_add(1): past the largest value the counter starts again at 0
wrapping_add(x) == (x + 1) % (U32Max + 1)

\* u32::saturating_add(1)
saturating_add(x) == IF x + 1 > U32Max THEN U32Max ELSE x + 1

\* StorageMap::get under ValueQuery: the stored value, or the default 0
vote_count(vc, id) == IF id \in DOMAIN vc THEN vc[id] ELSE 0

\* StorageMap::insert: the map with key k set to v
insert(map, k, v) == [x \in DOMAIN map \cup {k} |-> IF x = k THEN v ELSE map[x]]

\* contains_key with the lookup left out: no key is ever found
contains_key_never(map, k) == FALSE

\* StorageMap::contains_key
contains_key(map, k) == k \in DOMAIN map

\* the candidate lookup left out: every id is taken for a candidate's
any_id_always(cands, id) == TRUE

\* candidates.iter().any(|c| c.id == candidate_id)
any_id(cands, id) == \E i \in 1..Len(cands) : cands[i].id = id

\* ---------------------------------------------------------------- dispatchables

\* create_election accepting an election that ends at the block it starts at
create_election_empty_range(s, now, origin, title, start_block, end_block) ==
    IF origin # Root THEN Fail(s, "BadOrigin")
    ELSE IF s.Election # None THEN Fail(s, "ElectionAlreadyExists")
    ELSE IF ~(end_block >= start_block) THEN Fail(s, "InvalidTimeRange")
    ELSE LET bounded_title == try_into(title) IN
         IF bounded_title = None THEN Fail(s, "NameTooLong")
         ELSE Done([s EXCEPT !.Election =
                        Some([title |-> bounded_title[1], start_block |-> start_block,
                              end_block |-> end_block, is_active |-> FALSE,
                              is_finalized |-> FALSE])])

create_election(s, now, origin, title, start_block, end_block) ==
    IF origin # Root THEN Fail(s, "BadOrigin")
    ELSE IF s.Election # None THEN Fail(s, "ElectionAlreadyExists")
    ELSE IF ~(end_block > start_block) THEN Fail(s, "InvalidTimeRange")
    ELSE LET bounded_title == try_into(title) IN
         IF bounded_title = None THEN Fail(s, "NameTooLong")
         ELSE Done([s EXCEPT !.Election =
                        Some([title |-> bounded_title[1], start_block |-> start_block,
                              end_block |-> end_block, is_active |-> FALSE,
                              is_finalized |-> FALSE])])

\* add_candidate refusing an id the candidate list already holds
add_candidate_unique_id(s, now, origin, candidate_id, name, description) ==
    IF origin # Root THEN Fail(s, "BadOrigin")
    ELSE IF s.Election = None THEN Fail(s, "NoElectionExists")
    ELSE LET election == s.Election[1] IN
    IF election.is_active THEN Fail(s, "ElectionIsActive")
    ELSE IF any_id(s.Candidates, candidate_id) THEN Fail(s, "InvalidCandidate")
    ELSE LET bounded_name == try_into(name) IN
    IF bounded_name = None THEN Fail(s, "NameTooLong")
    ELSE LET bounded_description == try_into(description) IN
    IF bounded_description = None THEN Fail(s, "NameTooLong")
    ELSE LET candidate == [id |-> candidate_id, name |-> bounded_name[1],
                           description |-> bounded_description[1]]
             pushed == try_push(s.Candidates, candidate) IN
    IF pushed = None THEN Fail(s, "TooManyCandidates")
    ELSE Done([s EXCEPT !.Candidates = pushed[1],
                        !.VoteCount = insert(s.VoteCount, candidate_id, 0)])

\* add_candidate with the vote count initialised before the candidate is pushed,
\* so that a full candidate list fails the call after the write
add_candidate_count_first(s, now, origin, candidate_id, name, description) ==
    IF origin # Root THEN Fail(s, "BadOrigin")
    ELSE IF s.Election = None THEN Fail(s, "NoElectionExists")
    ELSE LET election == s.Election[1] IN
    IF election.is_active THEN Fail(s, "ElectionIsActive")
    ELSE LET bounded_name == try_into(name) IN
    IF bounded_name = None THEN Fail(s, "NameTooLong")
    ELSE LET bounded_description == try_into(description) IN
    IF bounded_description = None THEN Fail(s, "NameTooLong")
    ELSE LET candidate == [id |-> candidate_id, name |-> bounded_name[1],
                           description |-> bounded_description[1]]
             counted == [s EXCEPT !.VoteCount = insert(s.VoteCount, candidate_id, 0)]
             pushed == try_push(s.Candidates, candidate) IN
    IF pushed = None THEN Fail(counted, "TooManyCandidates")
    ELSE Done([counted EXCEPT !.Candidates = pushed[1]])

add_candidate(s, now, origin, candidate_id, name, description) ==
    IF origin # Root THEN Fail(s, "BadOrigin")
    ELSE IF s.Election = None THEN Fail(s, "NoElectionExists")
    ELSE LET election == s.Election[1] IN
    IF election.is_active THEN Fail(s, "ElectionIsActive")
    ELSE LET bounded_name == try_into(name) IN
    IF bounded_name = None THEN Fail(s, "NameTooLong")
    ELSE LET bounded_description == try_into(description) IN
    IF bounded_description = None THEN Fail(s, "NameTooLong")
    ELSE LET candidate == [id |-> candidate_id, name |-> bounded_name[1],
                           description |-> bounded_description[1]]
             pushed == try_push(s.Candidates, candidate) IN
    IF pushed = None THEN Fail(s, "TooManyCandidates")
    ELSE Done([s EXCEPT !.Candidates = pushed[1],
                        !.VoteCount = insert(s.VoteCount, candidate_id, 0)])

\* start_election opening only after start_block, not at it
start_election_after_start(s, now, origin) ==
    IF origin # Root THEN Fail(s, "BadOrigin")
    ELSE IF s.Election = None THEN Fail(s, "NoElectionExists")
    ELSE LET election == s.Election[1] IN
    IF ~(now > election.start_block) THEN Fail(s, "ElectionNotStarted")
    ELSE IF ~(now < election.end_block) THEN Fail(s, "ElectionEnded")
    ELSE Done([s EXCEPT !.Election = Some([election EXCEPT !.is_active = TRUE])])

start_election(s, now, origin) ==
    IF origin # Root THEN Fail(s, "BadOrigin")
    ELSE IF s.Election = None THEN Fail(s, "NoElectionExists")
    ELSE LET election == s.Election[1] IN
    IF ~(now >= election.start_block) THEN Fail(s, "ElectionNotStarted")
    ELSE IF ~(now < election.end_block) THEN Fail(s, "ElectionEnded")
    ELSE Done([s EXCEPT !.Election = Some([election EXCEPT !.is_active = TRUE])])

\* cast_vote with the candidate looked up before the voter
cast_vote_candidate_first(s, now, origin, candidate_id) ==
    IF origin \notin Accounts THEN Fail(s, "BadOrigin")
    ELSE LET voter == origin IN
    IF s.Election = None THEN Fail(s, "NoElectionExists")
    ELSE LET election == s.Election[1] IN
    IF ~election.is_active THEN Fail(s, "ElectionNotActive")
    ELSE IF ~(now >= election.start_block) THEN Fail(s, "ElectionNotStarted")
    ELSE IF ~(now < election.end_block) THEN Fail(s, "ElectionEnded")
    ELSE IF ~any_id(s.Candidates, candidate_id) THEN Fail(s, "InvalidCandidate")
    ELSE IF contains_key(s.HasVoted, voter) THEN Fail(s, "AlreadyVoted")
    ELSE Done([s EXCEPT !.HasVoted = insert(s.HasVoted, voter, candidate_id),
                        !.VoteCount = insert(s.VoteCount, candidate_id,
                                         saturating_add(vote_count(s.VoteCount, candidate_id))),
                        !.TotalVotes = saturating_add(s.TotalVotes)])

cast_vote(s, now, origin, candidate_id) ==
    IF origin \notin Accounts THEN Fail(s, "BadOrigin")
    ELSE LET voter == origin IN
    IF s.Election = None THEN Fail(s, "NoElectionExists")
    ELSE LET election == s.Election[1] IN
    IF ~election.is_active THEN Fail(s, "ElectionNotActive")
    ELSE IF ~(now >= election.start_block) THEN Fail(s, "ElectionNotStarted")
    ELSE IF ~(now < election.end_block) THEN Fail(s, "ElectionEnded")
    ELSE IF contains_key(s.HasVoted, voter) THEN Fail(s, "AlreadyVoted")
    ELSE IF ~any_id(s.Candidates, candidate_id) THEN Fail(s, "InvalidCandidate")
    ELSE Done([s EXCEPT !.HasVoted = insert(s.HasVoted, voter, candidate_id),
                        !.VoteCount = insert(s.VoteCount, candidate_id,
                                         saturating_add(vote_count(s.VoteCount, candidate_id))),
                        !.TotalVotes = saturating_add(s.TotalVotes)])

\* end_election refusing an election that is not active
end_election_active_only(s, now, origin) ==
    IF origin # Root THEN Fail(s, "BadOrigin")
    ELSE IF s.Election = None THEN Fail(s, "NoElectionExists")
    ELSE LET election == s.Election[1] IN
    IF ~election.is_active THEN Fail(s, "ElectionNotActive")
    ELSE Done([s EXCEPT !.Election = Some([election EXCEPT !.is_active = FALSE])])

end_election(s, now, origin) ==
    IF origin # Root THEN Fail(s, "BadOrigin")
    ELSE IF s.Election = None THEN Fail(s, "NoElectionExists")
    ELSE LET election == s.Election[1] IN
    Done([s EXCEPT !.Election = Some([election EXCEPT !.is_active = FALSE])])

finalize_election(s, now, origin) ==
    IF origin # Root THEN Fail(s, "BadOrigin")
    ELSE IF s.Election = None THEN Fail(s, "NoElectionExists")
    ELSE LET election == s.Election[1] IN
    IF election.is_active THEN Fail(s, "ElectionIsActive")
    ELSE IF election.is_finalized THEN Fail(s, "AlreadyFinalized")
    ELSE Done([s EXCEPT !.Election = Some([election EXCEPT !.is_finalized = TRUE])])

\* reset_election refusing to run when there is no election to reset
reset_election_needs_election(s, now, origin) ==
    IF origin # Root THEN Fail(s, "BadOrigin")
    ELSE IF s.Election = None THEN Fail(s, "NoElectionExists")
    ELSE Done([Election |-> None, Candidates |-> <<>>, HasVoted |-> <<>>,
               VoteCount |-> <<>>, TotalVotes |-> 0])

\* reset_election without its ensure_root
reset_election_any_origin(s, now, origin) ==
    Done([Election |-> None, Candidates |-> <<>>, HasVoted |-> <<>>,
          VoteCount |-> <<>>, TotalVotes |-> 0])

\* reset_election without TotalVotes::kill
reset_election_keep_total(s, now, origin) ==
    IF origin # Root THEN Fail(s, "BadOrigin")
    ELSE Done([Election |-> None, Candidates |-> <<>>, HasVoted |-> <<>>,
               VoteCount |-> <<>>, TotalVotes |-> s.TotalVotes])

reset_election(s, now, origin) ==
    IF origin # Root THEN Fail(s, "BadOrigin")
    ELSE Done([Election |-> None, Candidates |-> <<>>, HasVoted |-> <<>>,
               VoteCount |-> <<>>, TotalVotes |-> 0])

\* ---------------------------------------------------------------- helper functions

\* candidates.iter().map(|candidate| (candidate.id, candidate.name.to_vec(),
\* VoteCount::get(candidate.id))).collect()
RECURSIVE collect_results(_, _)
collect_results(cands, vc) ==
    IF cands = <<>> THEN <<>>
    ELSE LET candidate == Head(cands)
             votes == vote_count(vc, candidate.id)
         IN <<<<candidate.id, candidate.name, votes>>>> \o collect_results(Tail(cands), vc)

\* get_results reading each count under the candidate's position in the list
get_results_by_position(s) ==
    [i \in 1..Len(s.Candidates) |->
        <<s.Candidates[i].id, s.Candidates[i].name, vote_count(s.VoteCount, i)>>]

get_results(s) == collect_results(s.Candidates, s.VoteCount)

\* ---------------------------------------------------------------- actions

\* the record of a call: the fields a call does not have keep these values
NoCall == [op |-> "none", origin |-> Root, candidate_id |-> 0, title |-> <<>>,
           name |-> <<>>, description |-> <<>>, start_block |-> 0, end_block |-> 0,
           result |-> "Ok"]

\* commit the storage a dispatchable returned and record the call
Dispatch(call, r) ==
    /\ Election' = r.state.Election
    /\ Candidates' = r.state.Candidates
    /\ HasVoted' = r.state.HasVoted
    /\ VoteCount' = r.state.VoteCount
    /\ TotalVotes' = r.state.TotalVotes
    /\ last' = [call EXCEPT !.result = r.result]
    /\ prev' = Storage
    /\ UNCHANGED block_number
    /\ UNCHANGED blind_vars

CreateElection ==
    \E origin \in RootCallOrigins :
    \E title \in ArgsFor(origin = Root, ByteStrings),
       start_block \in ArgsFor(origin = Root, Blocks),
       end_block \in ArgsFor(origin = Root, Blocks) :
        Dispatch([NoCall EXCEPT !.op = "create_election", !.origin = origin, !.title = title,
                                !.start_block = start_block, !.end_block = end_block],
                 create_election(Storage, block_number, origin, title, start_block, end_block))

AddCandidate ==
    \E origin \in RootCallOrigins :
    \E candidate_id \in ArgsFor(origin = Root, CandidateIds),
       name \in ArgsFor(origin = Root, ByteStrings),
       description \in ArgsFor(origin = Root, ByteStrings) :
        Dispatch([NoCall EXCEPT !.op = "add_candidate", !.origin = origin,
                                !.candidate_id = candidate_id, !.name = name,
                                !.description = description],
                 add_candidate(Storage, block_number, origin, candidate_id, name, description))

StartElection ==
    \E origin \in RootCallOrigins :
        Dispatch([NoCall EXCEPT !.op = "start_election", !.origin = origin],
                 start_election(Storage, block_number, origin))

CastVote ==
    \E origin \in Origins :
    \E candidate_id \in ArgsFor(origin \in Accounts, CandidateIds) :
        Dispatch([NoCall EXCEPT !.op = "cast_vote", !.origin = origin,
                                !.candidate_id = candidate_id],
                 cast_vote(Storage, block_number, origin, candidate_id))

EndElection ==
    \E origin \in RootCallOrigins :
        Dispatch([NoCall EXCEPT !.op = "end_election", !.origin = origin],
                 end_election(Storage, block_number, origin))

FinalizeElection ==
    \E origin \in RootCallOrigins :
        Dispatch([NoCall EXCEPT !.op = "finalize_election", !.origin = origin],
                 finalize_election(Storage, block_number, origin))

ResetElection ==
    \E origin \in RootCallOrigins :
        Dispatch([NoCall EXCEPT !.op = "reset_election", !.origin = origin],
                 reset_election(Storage, block_number, origin))

\* the chain produces the next block
NextBlock ==
    /\ block_number < MaxBlock
    /\ block_number' = block_number + 1
    /\ last' = NoCall
    /\ prev' = Storage
    /\ UNCHANGED <<Election, Candidates, HasVoted, VoteCount, TotalVotes>>
    /\ UNCHANGED blind_vars

\* ---------------------------------------------------------------- blind pipeline

\* the pipeline's storage
BlindStorage == [PendingVotes |-> PendingVotes, PendingVoteCounter |-> PendingVoteCounter,
                 EncryptedVotes |-> EncryptedVotes, VoteCounter |-> VoteCounter]

\* a byte sequence turned into one bounded by max: None when it is longer
try_into_bounded(v, max) == IF Len(v) <= max THEN Some(v) ELSE None

\* a map without key k (removing an absent key changes nothing)
remove(map, k) == [x \in DOMAIN map \ {k} |-> map[x]]

\* a pipeline call returning Err(e), and returning Ok with the id it issued
BlindFail(s, e) == [result |-> e, id |-> -1, state |-> s]
BlindDone(s, id) == [result |-> "Ok", id |-> id, state |-> s]

\* submit_vote taking the id of the newest pending entry, not the counter
submit_vote_reuse_id(s, origin, encrypted_vote, blind_signature) ==
    IF origin \notin Accounts THEN BlindFail(s, "BadOrigin")
    ELSE LET bounded_vote == try_into_bounded(encrypted_vote, MaxEncryptedVoteLength) IN
    IF bounded_vote = None THEN BlindFail(s, "EncryptedVoteTooLarge")
    ELSE LET bounded_signature == try_into_bounded(blind_signature, MaxBlindSignatureLength) IN
    IF bounded_signature = None THEN BlindFail(s, "BlindSignatureTooLarge")
    ELSE LET pending_id == Cardinality(DOMAIN s.PendingVotes)
             pending_vote == [encrypted_vote |-> bounded_vote[1],
                              blind_signature |-> bounded_signature[1]]
         IN BlindDone([s EXCEPT !.PendingVotes = insert(s.PendingVotes, pending_id, pending_vote),
                                !.PendingVoteCounter = pending_id + 1],
                      pending_id)

submit_vote(s, origin, encrypted_vote, blind_signature) ==
    IF origin \notin Accounts THEN BlindFail(s, "BadOrigin")
    ELSE LET bounded_vote == try_into_bounded(encrypted_vote, MaxEncryptedVoteLength) IN
    IF bounded_vote = None THEN BlindFail(s, "EncryptedVoteTooLarge")
    ELSE LET bounded_signature == try_into_bounded(blind_signature, MaxBlindSignatureLength) IN
    IF bounded_signature = None THEN BlindFail(s, "BlindSignatureTooLarge")
    ELSE LET pending_id == s.PendingVoteCounter
             pending_vote == [encrypted_vote |-> bounded_vote[1],
                              blind_signature |-> bounded_signature[1]]
         IN BlindDone([s EXCEPT !.PendingVotes = insert(s.PendingVotes, pending_id, pending_vote),
                                !.PendingVoteCounter = pending_id + 1],
                      pending_id)

\* approve_vote leaving the pending entry in place
approve_vote_keep_pending(s, origin, pending_id) ==
    IF origin \notin Accounts THEN BlindFail(s, "BadOrigin")
    ELSE IF pending_id \notin DOMAIN s.PendingVotes THEN BlindFail(s, "VoteNotFound")
    ELSE LET pending_vote == s.PendingVotes[pending_id]
             vote_id == s.VoteCounter
         IN BlindDone([s EXCEPT !.EncryptedVotes = insert(s.EncryptedVotes, vote_id, pending_vote),
                                !.VoteCounter = vote_id + 1],
                      vote_id)

approve_vote(s, origin, pending_id) ==
    IF origin \notin Accounts THEN BlindFail(s, "BadOrigin")
    ELSE IF pending_id \notin DOMAIN s.PendingVotes THEN BlindFail(s, "VoteNotFound")
    ELSE LET pending_vote == s.PendingVotes[pending_id]
             vote_id == s.VoteCounter
         IN BlindDone([s EXCEPT !.EncryptedVotes = insert(s.EncryptedVotes, vote_id, pending_vote),
                                !.VoteCounter = vote_id + 1,
                                !.PendingVotes = remove(s.PendingVotes, pending_id)],
                      vote_id)

reject_vote(s, origin, pending_id) ==
    IF origin \notin Accounts THEN BlindFail(s, "BadOrigin")
    ELSE BlindDone([s EXCEPT !.PendingVotes = remove(s.PendingVotes, pending_id)], -1)

\* the byte strings passed as encrypted_vote and as blind_signature
EncryptedVoteInputs == {Bytes(n) : n \in 0..(MaxEncryptedVoteLength + 1)}
BlindSignatureInputs == {Bytes(MaxBlindSignatureLength), Bytes(MaxBlindSignatureLength + 1)}
\* the pending ids passed to approve_vote and reject_vote
PendingIds == 0..MaxSubmissions

\* the record of a pipeline call
\* (id: the id the call issued; consumed: whether an earlier call had approved or
\* rejected the entry at pending_id)
NoBlindCall == [op |-> "none", origin |-> Root, pending_id |-> -1, encrypted_vote |-> <<>>,
                blind_signature |-> <<>>, result |-> "Ok", id |-> -1, consumed |-> FALSE]

\* commit the storage a pipeline call returned and record the call
BlindDispatch(call, r) ==
    /\ PendingVotes' = r.state.PendingVotes
    /\ PendingVoteCounter' = r.state.PendingVoteCounter
    /\ EncryptedVotes' = r.state.EncryptedVotes
    /\ VoteCounter' = r.state.VoteCounter
    /\ blind_last' = [call EXCEPT !.result = r.result, !.id = r.id,
                                  !.consumed = call.pending_id \in (issued.approved \cup issued.rejected)]
    /\ blind_prev' = BlindStorage
    /\ issued' =
         [pending_ids |-> IF call.op = "submit_vote" /\ r.result = "Ok"
                          THEN Append(issued.pending_ids, r.id) ELSE issued.pending_ids,
          vote_ids |-> IF call.op = "approve_vote" /\ r.result = "Ok"
                       THEN Append(issued.vote_ids, r.id) ELSE issued.vote_ids,
          approved |-> IF call.op = "approve_vote" /\ r.result = "Ok"
                       THEN issued.approved \cup {call.pending_id} ELSE issued.approved,
          rejected |-> IF /\ call.op = "reject_vote" /\ r.result = "Ok"
                          /\ call.pending_id \in DOMAIN PendingVotes
                       THEN issued.rejected \cup {call.pending_id} ELSE issued.rejected]
    /\ UNCHANGED vars

SubmitVote ==
    /\ PendingVoteCounter < MaxSubmissions
    /\ \E origin \in Origins :
       \E encrypted_vote \in ArgsFor(origin \in Accounts, EncryptedVoteInputs),
          blind_signature \in ArgsFor(origin \in Accounts, BlindSignatureInputs) :
           BlindDispatch([NoBlindCall EXCEPT !.op = "submit_vote", !.origin = origin,
                                             !.encrypted_vote = encrypted_vote,
                                             !.blind_signature = blind_signature],
                         submit_vote(BlindStorage, origin, encrypted_vote, blind_signature))

ApproveVote ==
    \E origin \in Origins :
    \E pending_id \in ArgsFor(origin \in Accounts, PendingIds) :
        BlindDispatch([NoBlindCall EXCEPT !.op = "approve_vote", !.origin = origin,
                                          !.pending_id = pending_id],
                      approve_vote(BlindStorage, origin, pending_id))

RejectVote ==
    \E origin \in Origins :
    \E pending_id \in ArgsFor(origin \in Accounts, PendingIds) :
        BlindDispatch([NoBlindCall EXCEPT !.op = "reject_vote", !.origin = origin,
                                          !.pending_id = pending_id],
                      reject_vote(BlindStorage, origin, pending_id))

\* the pipeline at genesis: no entries, both counters 0
BlindInit ==
    /\ PendingVotes = <<>>
    /\ PendingVoteCounter = 0
    /\ EncryptedVotes = <<>>
    /\ VoteCounter = 0
    /\ blind_last = NoBlindCall
    /\ blind_prev = [PendingVotes |-> <<>>, PendingVoteCounter |-> 0,
                     EncryptedVotes |-> <<>>, VoteCounter |-> 0]
    /\ issued = [pending_ids |-> <<>>, vote_ids |-> <<>>, approved |-> {}, rejected |-> {}]

\* genesis: every storage item is absent and the block number is 0
Init ==
    /\ BlindInit
    /\ Election = None
    /\ Candidates = <<>>
    /\ HasVoted = <<>>
    /\ VoteCount = <<>>
    /\ TotalVotes = 0
    /\ block_number = 0
    /\ last = NoCall
    /\ prev = [Election |-> None, Candidates |-> <<>>, HasVoted |-> <<>>,
               VoteCount |-> <<>>, TotalVotes |-> 0]

Next ==
    \/ CreateElection
    \/ AddCandidate
    \/ StartElection
    \/ CastVote
    \/ EndElection
    \/ FinalizeElection
    \/ ResetElection
    \/ NextBlock

Spec == Init /\ [][Next]_all_vars

\* the blind pipeline runs on storage of its own and reads nothing of the election
BlindNext ==
    \/ SubmitVote
    \/ ApproveVote
    \/ RejectVote

BlindSpec == Init /\ [][BlindNext]_all_vars

\* ---------------------------------------------------------------- properties

\* the ids of the entries of a candidate list
IdsOf(cands) == {cands[i].id : i \in 1..Len(cands)}

\* the sum of the stored vote counts of the ids in S
RECURSIVE SumVotes(_, _)
SumVotes(vc, S) ==
    IF S = {} THEN 0
    ELSE LET c == CHOOSE x \in S : TRUE
         IN (IF c \in DOMAIN vc THEN vc[c] ELSE 0) + SumVotes(vc, S \ {c})

\* C1: in every reachable state TotalVotes is the sum of VoteCount[c] over the
\* candidate ids added since the last reset_election (the ids of the candidate
\* list, which only reset_election shortens). Stated for the states in which
\* TotalVotes is below the clamp, where saturation cannot be what breaks it.
C1_TotalVotesIsSum ==
    TotalVotes < U32Max => TotalVotes = SumVotes(VoteCount, IdsOf(Candidates))

\* C2 as claimed: a cast_vote by an identity that has already voted fails with
\* AlreadyVoted, whatever the election's state and the block, and changes nothing.
C2_RepeatVoteIsAlreadyVoted ==
    (last.op = "cast_vote" /\ last.origin \in DOMAIN prev.HasVoted)
        => (last.result = "AlreadyVoted" /\ Storage = prev)

\* C2 as amended: a cast_vote by an identity that has already voted fails and
\* changes nothing; the error is ElectionNotActive when the election is not
\* active, else ElectionEnded when the block is at or past end_block, and
\* AlreadyVoted only otherwise.
C2_RepeatVoteFails ==
    (last.op = "cast_vote" /\ last.origin \in DOMAIN prev.HasVoted)
        => /\ Storage = prev
           /\ prev.Election # None
           /\ last.result =
                IF ~prev.Election[1].is_active THEN "ElectionNotActive"
                ELSE IF block_number >= prev.Election[1].end_block THEN "ElectionEnded"
                ELSE "AlreadyVoted"

\* a voter who has voted votes again while the election is active and open
C2_Witness ==
    /\ last.op = "cast_vote"
    /\ last.origin \in DOMAIN prev.HasVoted
    /\ last.result = "AlreadyVoted"

\* C3: a call that returns an error leaves the Election record, Candidates,
\* HasVoted, VoteCount and TotalVotes as they were before the call.
C3_ErrorLeavesStorage ==
    (last.op # "none" /\ last.result # "Ok") => Storage = prev

\* a call fails at its last guard, after the storage holds votes
C3_Witness ==
    /\ last.op = "add_candidate"
    /\ last.result = "TooManyCandidates"
    /\ TotalVotes > 0

\* C4: once the election is finalized, no call other than reset_election
\* changes the election record: is_active stays false and is_finalized true.
C4_FinalizedIsTerminal ==
    (/\ last.op \notin {"none", "reset_election"}
     /\ prev.Election # None
     /\ prev.Election[1].is_finalized)
        => Election = prev.Election

\* C5: cast_vote by a signed origin returns the error of the first failing
\* guard, in the order NoElectionExists, ElectionNotActive, ElectionNotStarted,
\* ElectionEnded, AlreadyVoted, InvalidCandidate, and Ok when none fails.
C5_CastVoteGuardOrder ==
    (last.op = "cast_vote" /\ last.origin \in Accounts)
        => last.result =
             IF prev.Election = None THEN "NoElectionExists"
             ELSE IF ~prev.Election[1].is_active THEN "ElectionNotActive"
             ELSE IF block_number < prev.Election[1].start_block THEN "ElectionNotStarted"
             ELSE IF block_number >= prev.Election[1].end_block THEN "ElectionEnded"
             ELSE IF last.origin \in DOMAIN prev.HasVoted THEN "AlreadyVoted"
             ELSE IF \A i \in 1..Len(prev.Candidates) :
                        prev.Candidates[i].id # last.candidate_id THEN "InvalidCandidate"
             ELSE "Ok"

\* a vote passes every guard but the last: the voter has not voted, the id is unknown
C5_Witness ==
    /\ last.op = "cast_vote"
    /\ last.result = "InvalidCandidate"
    /\ Candidates # <<>>

\* C6: a successful cast_vote(candidate_id) by voter v inserts
\* HasVoted[v] = candidate_id, sets VoteCount[candidate_id] and TotalVotes each
\* to min(old + 1, u32::MAX), never to a smaller value than before, and leaves
\* the election record, the candidate list and every other HasVoted and
\* VoteCount entry unchanged.
C6_VoteEffect ==
    (last.op = "cast_vote" /\ last.result = "Ok")
        => LET v == last.origin
               c == last.candidate_id
               old == IF c \in DOMAIN prev.VoteCount THEN prev.VoteCount[c] ELSE 0
           IN /\ DOMAIN HasVoted = DOMAIN prev.HasVoted \cup {v}
              /\ HasVoted[v] = c
              /\ \A u \in DOMAIN prev.HasVoted \ {v} : HasVoted[u] = prev.HasVoted[u]
              /\ DOMAIN VoteCount = DOMAIN prev.VoteCount \cup {c}
              /\ VoteCount[c] = (IF old + 1 < U32Max THEN old + 1 ELSE U32Max)
              /\ VoteCount[c] >= old
              /\ \A k \in DOMAIN prev.VoteCount \ {c} : VoteCount[k] = prev.VoteCount[k]
              /\ TotalVotes = (IF prev.TotalVotes + 1 < U32Max THEN prev.TotalVotes + 1 ELSE U32Max)
              /\ TotalVotes >= prev.TotalVotes
              /\ Election = prev.Election
              /\ Candidates = prev.Candidates

\* a vote is accepted when TotalVotes already holds the largest value
C6_Witness ==
    /\ last.op = "cast_vote"
    /\ last.result = "Ok"
    /\ prev.TotalVotes = U32Max

\* C7: create_election by Root fails with ElectionAlreadyExists when a record
\* exists, else with InvalidTimeRange when end <= start, else with NameTooLong
\* when the title is longer than the bound; otherwise it stores the record with
\* is_active = false and is_finalized = false. Every stored record has
\* end_block > start_block.
C7_CreateElection ==
    /\ (last.op = "create_election" /\ last.origin = Root)
        => /\ last.result =
                IF prev.Election # None THEN "ElectionAlreadyExists"
                ELSE IF last.end_block <= last.start_block THEN "InvalidTimeRange"
                ELSE IF Len(last.title) > MaxNameLength THEN "NameTooLong"
                ELSE "Ok"
           /\ last.result = "Ok"
                => Election = <<[title |-> last.title, start_block |-> last.start_block,
                                 end_block |-> last.end_block, is_active |-> FALSE,
                                 is_finalized |-> FALSE]>>
    /\ Election # None => Election[1].end_block > Election[1].start_block

\* an election is created
C7_Witness ==
    /\ last.op = "create_election"
    /\ last.result = "Ok"
    /\ Election # None

\* C8: start_election by Root fails with NoElectionExists when no record
\* exists, with ElectionNotStarted when the block is before start_block, with
\* ElectionEnded when the block is at or past end_block; otherwise it sets
\* is_active = true and changes nothing else, so that starting an election that
\* is already active succeeds and leaves the storage as it was.
C8_StartElection ==
    (last.op = "start_election" /\ last.origin = Root)
        => /\ last.result =
                IF prev.Election = None THEN "NoElectionExists"
                ELSE IF block_number < prev.Election[1].start_block THEN "ElectionNotStarted"
                ELSE IF block_number >= prev.Election[1].end_block THEN "ElectionEnded"
                ELSE "Ok"
           /\ last.result = "Ok"
                => /\ Election = <<[title |-> prev.Election[1].title,
                                    start_block |-> prev.Election[1].start_block,
                                    end_block |-> prev.Election[1].end_block,
                                    is_active |-> TRUE,
                                    is_finalized |-> prev.Election[1].is_finalized]>>
                   /\ Candidates = prev.Candidates
                   /\ HasVoted = prev.HasVoted
                   /\ VoteCount = prev.VoteCount
                   /\ TotalVotes = prev.TotalVotes
                   /\ prev.Election[1].is_active => Storage = prev

\* start_election succeeds on an election that is already active
C8_Witness ==
    /\ last.op = "start_election"
    /\ last.result = "Ok"
    /\ prev.Election # None
    /\ prev.Election[1].is_active

\* C9: add_candidate by Root fails with NoElectionExists when no record exists,
\* with ElectionIsActive when the election is active, with NameTooLong when the
\* name or the description is longer than the bound, with TooManyCandidates
\* when the list holds MaxCandidates entries, and succeeds otherwise. The list
\* never holds more than MaxCandidates entries, and a call made while the
\* election is active leaves the list as it was unless it removes the election.
C9_AddCandidateGuards ==
    /\ (last.op = "add_candidate" /\ last.origin = Root)
        => last.result =
             IF prev.Election = None THEN "NoElectionExists"
             ELSE IF prev.Election[1].is_active THEN "ElectionIsActive"
             ELSE IF Len(last.name) > MaxNameLength \/ Len(last.description) > MaxNameLength
                  THEN "NameTooLong"
             ELSE IF Len(prev.Candidates) >= MaxCandidates THEN "TooManyCandidates"
             ELSE "Ok"
    /\ Len(Candidates) <= MaxCandidates
    /\ (prev.Election # None /\ prev.Election[1].is_active)
        => (Candidates = prev.Candidates \/ Election = None)

\* add_candidate is refused because the list is full
C9_Witness ==
    /\ last.op = "add_candidate"
    /\ last.result = "TooManyCandidates"
    /\ Len(Candidates) = MaxCandidates

C11_ResetClearsAll ==
    /\ (last.op = "reset_election" /\ last.origin = Root)
        => /\ last.result = "Ok"
           /\ Election = <<>>
           /\ Candidates = <<>>
           /\ DOMAIN HasVoted = {}
           /\ DOMAIN VoteCount = {}
           /\ TotalVotes = 0
    /\ (/\ last.op = "create_election"
        /\ last.origin = Root
        /\ prev.Election = <<>>
        /\ last.end_block > last.start_block
        /\ Len(last.title) <= MaxNameLength)
        => (last.result = "Ok" /\ Election # <<>>)

\* a finalized election that holds votes is reset
C11_Witness ==
    /\ last.op = "reset_election"
    /\ last.result = "Ok"
    /\ prev.Election # <<>>
    /\ prev.Election[1].is_finalized
    /\ prev.TotalVotes > 0
    /\ Election = <<>>

\* C12: end_election by Root fails with NoElectionExists when no record
\* exists; otherwise it succeeds whatever the block, is_active and
\* is_finalized are, sets is_active = false and leaves title, start_block,
\* end_block, is_finalized, the candidate list, HasVoted, VoteCount and
\* TotalVotes unchanged.
C12_EndElection ==
    (last.op = "end_election" /\ last.origin = Root)
        => IF prev.Election = <<>>
           THEN last.result = "NoElectionExists"
           ELSE /\ last.result = "Ok"
                /\ Election = <<[title |-> prev.Election[1].title,
                                 start_block |-> prev.Election[1].start_block,
                                 end_block |-> prev.Election[1].end_block,
                                 is_active |-> FALSE,
                                 is_finalized |-> prev.Election[1].is_finalized]>>
                /\ Candidates = prev.Candidates
                /\ HasVoted = prev.HasVoted
                /\ VoteCount = prev.VoteCount
                /\ TotalVotes = prev.TotalVotes

\* end_election succeeds on an election that is not active, before its start block
C12_Witness ==
    /\ last.op = "end_election"
    /\ last.result = "Ok"
    /\ ~prev.Election[1].is_active
    /\ block_number < prev.Election[1].start_block

\* C13: a HasVoted entry is never changed or removed by a call other than a
\* successful reset_election, which removes every entry.
C13_HasVotedImmutable ==
    IF last.op = "reset_election" /\ last.result = "Ok"
    THEN DOMAIN HasVoted = {}
    ELSE \A v \in DOMAIN prev.HasVoted :
             v \in DOMAIN HasVoted /\ HasVoted[v] = prev.HasVoted[v]

\* a voter with an entry calls cast_vote for another candidate of the list
C13_Witness ==
    /\ last.op = "cast_vote"
    /\ last.origin \in DOMAIN prev.HasVoted
    /\ last.candidate_id # prev.HasVoted[last.origin]
    /\ last.candidate_id \in IdsOf(Candidates)
    /\ last.result = "AlreadyVoted"

\* C14: create_election, add_candidate, start_election, end_election,
\* finalize_election and reset_election dispatched with an origin other than
\* Root, and cast_vote dispatched with an origin that is not a signed account
\* (Root included), fail with BadOrigin before anything else and change no
\* storage.
C14_OriginFirst ==
    /\ (/\ last.op \in {"create_election", "add_candidate", "start_election",
                        "end_election", "finalize_election", "reset_election"}
        /\ last.origin # Root)
        => (last.result = "BadOrigin" /\ Storage = prev)
    /\ (last.op = "cast_vote" /\ last.origin \notin Accounts)
        => (last.result = "BadOrigin" /\ Storage = prev)

\* a signed account calls reset_election on an election that holds votes
C14_Witness ==
    /\ last.op = "reset_election"
    /\ last.origin \in Accounts
    /\ last.result = "BadOrigin"
    /\ TotalVotes > 0

\* C15: get_results returns one triple (candidate_id, name, vote_count) per
\* entry of the candidate list, in the list's order, vote_count being the
\* stored VoteCount[candidate_id].
C15_GetResults ==
    LET results == get_results(Storage) IN
    /\ Len(results) = Len(Candidates)
    /\ \A i \in 1..Len(Candidates) :
           /\ Candidates[i].id \in DOMAIN VoteCount
           /\ results[i] = <<Candidates[i].id, Candidates[i].name,
                             VoteCount[Candidates[i].id]>>

\* the list holds candidate 2 before candidate 1, and candidate 1 has two votes
C15_Witness ==
    /\ Len(Candidates) = 2
    /\ Candidates[1].id = 2
    /\ Candidates[2].id = 1
    /\ get_results(Storage)[2] = <<1, Candidates[2].name, 2>>
    /\ get_results(Storage)[1][3] = 0

\* a sequence of issued ids starts at 0, is strictly increasing and has no id twice
IncreasingFromZero(ids) ==
    /\ Len(ids) > 0 => ids[1] = 0
    /\ \A i \in 1..Len(ids) : \A j \in 1..Len(ids) : i < j => ids[i] < ids[j]
    /\ \A i \in 1..Len(ids) : \A j \in 1..Len(ids) : ids[i] = ids[j] => i = j

\* C16: the pending_id values issued by successful submit_vote calls start at 0, are
\* strictly increasing in call order and are never issued twice, whatever approve_vote
\* and reject_vote calls come in between (removing a pending entry does not free its
\* id); the vote_id values issued by approve_vote likewise start at 0, strictly
\* increase and are never reused.
C16_IdsIncreaseNeverReused ==
    /\ IncreasingFromZero(issued.pending_ids)
    /\ IncreasingFromZero(issued.vote_ids)
    /\ (blind_last.op = "submit_vote" /\ blind_last.result = "Ok") =>
           /\ blind_last.id = issued.pending_ids[Len(issued.pending_ids)]
           /\ blind_last.id \notin DOMAIN blind_prev.PendingVotes
           /\ blind_last.id \notin (issued.approved \cup issued.rejected)
    /\ (blind_last.op = "approve_vote" /\ blind_last.result = "Ok") =>
           /\ blind_last.id = issued.vote_ids[Len(issued.vote_ids)]
           /\ blind_last.id \notin DOMAIN blind_prev.EncryptedVotes

\* a submit_vote issuing a third id after one entry was approved and another rejected
C16_Witness ==
    /\ blind_last.op = "submit_vote"
    /\ blind_last.result = "Ok"
    /\ blind_last.id = 2
    /\ issued.approved # {}
    /\ issued.rejected # {}
    /\ Len(issued.vote_ids) > 0

\* C17: approve_vote(pending_id) from a signed origin fails with VoteNotFound, changing
\* nothing, exactly when no pending entry exists at pending_id; otherwise it succeeds,
\* stores the entry's payload unchanged in EncryptedVotes under the next vote_id,
\* advances VoteCounter and removes the pending entry. An entry approved or rejected
\* earlier is absent, so approving it again fails with VoteNotFound.
C17_ApproveConsumes ==
    /\ (issued.approved \cup issued.rejected) \cap DOMAIN PendingVotes = {}
    /\ (blind_last.op = "approve_vote" /\ blind_last.origin \in Accounts) =>
         LET pending_id == blind_last.pending_id IN
         /\ blind_last.consumed => blind_last.result = "VoteNotFound"
         /\ IF pending_id \notin DOMAIN blind_prev.PendingVotes
            THEN /\ blind_last.result = "VoteNotFound"
                 /\ BlindStorage = blind_prev
            ELSE /\ blind_last.result = "Ok"
                 /\ blind_last.id = blind_prev.VoteCounter
                 /\ DOMAIN EncryptedVotes = DOMAIN blind_prev.EncryptedVotes \cup {blind_last.id}
                 /\ EncryptedVotes[blind_last.id] = blind_prev.PendingVotes[pending_id]
                 /\ \A v \in DOMAIN blind_prev.EncryptedVotes :
                        EncryptedVotes[v] = blind_prev.EncryptedVotes[v]
                 /\ VoteCounter = blind_prev.VoteCounter + 1
                 /\ DOMAIN PendingVotes = DOMAIN blind_prev.PendingVotes \ {pending_id}
                 /\ \A q \in DOMAIN PendingVotes : PendingVotes[q] = blind_prev.PendingVotes[q]
                 /\ PendingVoteCounter = blind_prev.PendingVoteCounter

\* a second approve_vote of a pending_id whose payload is in the ledger
C17_Witness ==
    /\ blind_last.op = "approve_vote"
    /\ blind_last.origin \in Accounts
    /\ blind_last.pending_id \in issued.approved
    /\ blind_last.consumed
    /\ blind_last.result = "VoteNotFound"
    /\ EncryptedVotes # <<>>

\* C18: for every candidate id c of the candidate list, VoteCount[c] is the
\* number of identities v with HasVoted[v] = c, as long as no counter has
\* reached u32::MAX; adding a candidate leaves the votes already counted.
C18_CountIsVoters ==
    (TotalVotes < U32Max /\ \A k \in DOMAIN VoteCount : VoteCount[k] < U32Max)
        => \A c \in IdsOf(Candidates) :
               (IF c \in DOMAIN VoteCount THEN VoteCount[c] ELSE 0)
                   = Cardinality({v \in DOMAIN HasVoted : HasVoted[v] = c})

\* C19: TotalVotes is the number of entries of HasVoted, as long as TotalVotes
\* has not reached u32::MAX.
C19_TotalIsVoters ==
    TotalVotes < U32Max => TotalVotes = Cardinality(DOMAIN HasVoted)

\* a vote has just been counted and TotalVotes is below the clamp
C19_Witness ==
    /\ last.op = "cast_vote"
    /\ last.result = "Ok"
    /\ TotalVotes = 1
    /\ Cardinality(DOMAIN HasVoted) = 1

\* C20: every value stored in HasVoted is the id of an entry of the candidate
\* list, and HasVoted is empty whenever no election record exists.
C20_VotesReferToCandidates ==
    /\ \A v \in DOMAIN HasVoted : HasVoted[v] \in IdsOf(Candidates)
    /\ Election = <<>> => DOMAIN HasVoted = {}

\* two voters have voted, for different candidates of the list
C20_Witness ==
    /\ Election # <<>>
    /\ \E v, w \in DOMAIN HasVoted : HasVoted[v] # HasVoted[w]
    /\ \A v \in DOMAIN HasVoted : \E i \in 1..Len(Candidates) : Candidates[i].id = HasVoted[v]

====
